---- MODULE Spec2Model ----
(***************************************************************************)
(* A model of main.py: the display-name synthesizer, the password          *)
(* generator, the date-of-birth generator, the email validator and the     *)
(* interactive menu flow that builds, logs and presents an AccountDetails  *)
(* record.                                                                 *)
(*                                                                         *)
(* A Python str is a sequence of characters.  A character is a one-letter  *)
(* string; a character outside ASCII is named by its code point, as in     *)
(* "U+00E9".                                                               *)
(***************************************************************************)
EXTENDS Integers, Sequences, FiniteSets, TLC

VARIABLES
    pc,            \* the position of the running function
    first,         \* generate_display_name: first
    last,          \* generate_display_name: last
    base,          \* sanitize_display_name: base
    s,             \* sanitize_display_name: s
    display_name,  \* the value sanitize_display_name returned
    requested,     \* generate_password: the length argument as passed
    length,        \* generate_password: length
    req,           \* generate_password: req
    remaining,     \* generate_password: remaining
    chars,         \* generate_password: chars
    password,      \* the value generate_password returned
    min_year,      \* generate_valid_date: min_year
    max_year,      \* generate_valid_date: max_year
    year,          \* generate_valid_date: year
    month,         \* generate_valid_date: month
    day,           \* generate_valid_date: day
    date_str,      \* the value generate_valid_date returned
    raw,           \* is_valid_email: the argument
    valid,         \* the value is_valid_email returned
    typed_email,   \* menu_loop: the text typed at the email prompt
    email,         \* menu_loop: email
    typed_country, \* choose_country: the text typed at the country prompt
    country,       \* menu_loop: country
    acc,           \* menu_loop: acc, the AccountDetails record
    block,         \* menu_loop: block
    parent_exists, \* whether the directory of the log file exists
    file,          \* the content of the log file, None while it does not exist
    original,      \* the content of the log file when the program started
    generated,     \* the records generate_account has returned, in order
    opened,        \* the URL the browser opened last
    clipboard,     \* the content of the clipboard
    notice,        \* the last status line printed
    exc,           \* the exception that ended the program
    env            \* whether the clipboard and the browser of the machine work

nameVars == <<first, last, base, s, display_name>>

pwdVars == <<requested, length, req, remaining, chars, password>>

dateVars == <<min_year, max_year, year, month, day, date_str>>

emailVars == <<raw, valid>>

menuVars == <<typed_email, email, typed_country, country, acc, block,
              parent_exists, file, original, generated, opened, clipboard,
              notice, exc, env>>

vars == <<pc, nameVars, pwdVars, dateVars, emailVars, menuVars>>

None == <<"None">>

(***************************************************************************)
(* The part of the state a function does not use while another one runs.   *)
(***************************************************************************)
NameIdle ==
    /\ first = None /\ last = None /\ base = None
    /\ s = None /\ display_name = None

PwdIdle ==
    /\ requested = 0 /\ length = 0 /\ req = None /\ remaining = None
    /\ chars = None /\ password = None

DateIdle ==
    /\ min_year = 0 /\ max_year = 0 /\ year = 0 /\ month = 0 /\ day = 0
    /\ date_str = None

EmailIdle == raw = None /\ valid = None

MenuIdle ==
    /\ typed_email = None /\ email = None /\ typed_country = None
    /\ country = None /\ acc = None /\ block = None
    /\ parent_exists = TRUE /\ file = None /\ original = None
    /\ generated = << >> /\ opened = None /\ clipboard = None
    /\ notice = None /\ exc = None /\ env = None

(***************************************************************************)
(* Bounds of the model.                                                    *)
(***************************************************************************)
\* Longest base string handed directly to sanitize_display_name.
MaxBaseLen == 3
\* secrets.randbelow(9000) is explored for 0..MaxSuffixDraw and for 8999.
MaxSuffixDraw == 1
\* Largest length argument handed to generate_password.
MaxRequested == 11
\* Widest year range, max_year - min_year, handed to generate_valid_date
\* besides the configured one.
MaxYearSpan == 2
\* Longest string over EmailChars handed to is_valid_email.
MaxEmailLen == 6
\* Most records generated in one run of menu_loop.
MaxGenerations == 2

(***************************************************************************)
(* Characters and strings.                                                 *)
(***************************************************************************)
Range(seq) == {seq[k] : k \in 1..Len(seq)}

ascii_lowercase ==
    <<"a", "b", "c", "d", "e", "f", "g", "h", "i", "j", "k", "l", "m",
      "n", "o", "p", "q", "r", "s", "t", "u", "v", "w", "x", "y", "z">>

ascii_uppercase ==
    <<"A", "B", "C", "D", "E", "F", "G", "H", "I", "J", "K", "L", "M",
      "N", "O", "P", "Q", "R", "S", "T", "U", "V", "W", "X", "Y", "Z">>

digits ==
    <<"0", "1", "2", "3", "4", "5", "6", "7", "8", "9">>

\* Letters outside ASCII: e-acute in lower and upper case.
NonAsciiLower == <<"U+00E9">>
NonAsciiUpper == <<"U+00C9">>

IndexOf(seq, c) == CHOOSE k \in 1..Len(seq) : seq[k] = c

\* str.lower() on one character.
CharLower(c) ==
    IF c \in Range(ascii_uppercase)
        THEN ascii_lowercase[IndexOf(ascii_uppercase, c)]
    ELSE IF c \in Range(NonAsciiUpper)
        THEN NonAsciiLower[IndexOf(NonAsciiUpper, c)]
    ELSE c

\* str.lower()
Lower(str) == [k \in 1..Len(str) |-> CharLower(str[k])]

\* str.isalpha() on one character: true of every Unicode letter.
IsAlpha(c) ==
    c \in Range(ascii_lowercase) \cup Range(ascii_uppercase)
          \cup Range(NonAsciiLower) \cup Range(NonAsciiUpper)

\* str(n) for n >= 0.
RECURSIVE Str(_)
Str(n) == IF n < 10 THEN <<digits[n + 1]>>
          ELSE Str(n \div 10) \o <<digits[(n % 10) + 1]>>

\* All strings over chars of length at most n.
RECURSIVE StringsUpTo(_, _)
StringsUpTo(alphabet, n) ==
    IF n = 0 THEN {<< >>}
    ELSE LET shorter == StringsUpTo(alphabet, n - 1)
         IN  shorter \cup {Append(t, c) : t \in shorter, c \in alphabet}

(***************************************************************************)
(* Configuration.                                                          *)
(***************************************************************************)
FIRST_NAMES ==
    << <<"O", "l", "i", "v", "e", "r">>,
       <<"G", "e", "o", "r", "g", "e">>,
       <<"H", "a", "r", "r", "y">>,
       <<"J", "a", "c", "k">>,
       <<"N", "o", "a", "h">>,
       <<"O", "l", "i", "v", "i", "a">>,
       <<"A", "m", "e", "l", "i", "a">>,
       <<"I", "s", "l", "a">>,
       <<"A", "v", "a">>,
       <<"M", "i", "a">>,
       <<"L", "i", "a", "m">>,
       <<"E", "m", "m", "a">>,
       <<"S", "o", "p", "h", "i", "a">>,
       <<"C", "h", "a", "r", "l", "o", "t", "t", "e">>,
       <<"J", "a", "m", "e", "s">>,
       <<"B", "e", "n", "j", "a", "m", "i", "n">>,
       <<"L", "u", "c", "a", "s">>,
       <<"H", "e", "n", "r", "y">>,
       <<"E", "t", "h", "a", "n">>,
       <<"G", "r", "a", "c", "e">> >>

LAST_NAMES ==
    << <<"S", "m", "i", "t", "h">>,
       <<"J", "o", "h", "n", "s", "o", "n">>,
       <<"W", "i", "l", "l", "i", "a", "m", "s">>,
       <<"B", "r", "o", "w", "n">>,
       <<"J", "o", "n", "e", "s">>,
       <<"M", "i", "l", "l", "e", "r">>,
       <<"D", "a", "v", "i", "s">>,
       <<"G", "a", "r", "c", "i", "a">>,
       <<"R", "o", "d", "r", "i", "g", "u", "e", "z">>,
       <<"W", "i", "l", "s", "o", "n">>,
       <<"T", "a", "y", "l", "o", "r">>,
       <<"T", "h", "o", "m", "a", "s">>,
       <<"M", "o", "o", "r", "e">>,
       <<"M", "a", "r", "t", "i", "n">>,
       <<"J", "a", "c", "k", "s", "o", "n">> >>

(***************************************************************************)
(* generate_password.                                                      *)
(***************************************************************************)
SAFE_PUNCT ==
    <<"!", "@", "#", "$", "%", "^", "&", "*", "(", ")", "-", "_", "=", "+",
      "[", "]", "{", "}", ":", ";", ",", ".", "/", "?">>

\* PASSWORD_ALPHABET = string.ascii_letters + string.digits + SAFE_PUNCT
PASSWORD_ALPHABET ==
    ascii_lowercase \o ascii_uppercase \o digits \o SAFE_PUNCT

\* The outcomes of secrets.choice(seq) the model explores: the first and the
\* last element of seq.
PwdChoice(seq) == {seq[1], seq[Len(seq)]}

\* The runs of the shuffle the model explores.  A run fixes the outcome j of
\* randbelow(k + 1) at every index k: always 0, always k (nothing moves),
\* always k - 1, or always the middle of 0..k.
ShuffleRuns == {"first", "self", "previous", "middle"}

ShuffleDraw(run, k) ==
    CASE run = "first"    -> 0
      [] run = "self"     -> k
      [] run = "previous" -> k - 1
      [] run = "middle"   -> k \div 2

\* if length < 10: length = 10
Clamped(n) == IF n < 10 THEN 10 ELSE n

ClampLength ==
    /\ pc = "generate_password"
    /\ length' = Clamped(requested)
    /\ pc' = "draw_required"
    /\ UNCHANGED <<nameVars, dateVars, emailVars, menuVars, requested, req,
                   remaining, chars, password>>

\* DrawRequired with the draw from string.digits left out.
DrawRequiredWithoutDigit ==
    /\ pc = "draw_required"
    /\ \E lo \in PwdChoice(ascii_lowercase), up \in PwdChoice(ascii_uppercase),
          pu \in PwdChoice(SAFE_PUNCT) :
          req' = <<lo, up, pu>>
    /\ remaining' = << >>
    /\ pc' = "draw_remaining"
    /\ UNCHANGED <<nameVars, dateVars, emailVars, menuVars, requested, length,
                   chars, password>>

\* req = [one lowercase, one uppercase, one digit, one of SAFE_PUNCT]
DrawRequired ==
    /\ pc = "draw_required"
    /\ \E lo \in PwdChoice(ascii_lowercase), up \in PwdChoice(ascii_uppercase),
          di \in PwdChoice(digits), pu \in PwdChoice(SAFE_PUNCT) :
          req' = <<lo, up, di, pu>>
    /\ remaining' = << >>
    /\ pc' = "draw_remaining"
    /\ UNCHANGED <<nameVars, dateVars, emailVars, menuVars, requested, length,
                   chars, password>>

\* remaining = [secrets.choice(PASSWORD_ALPHABET)
\*              for _ in range(length - len(req))]: one element
DrawRemaining ==
    /\ pc = "draw_remaining"
    /\ Len(remaining) < length - Len(req)
    /\ \E c \in PwdChoice(PASSWORD_ALPHABET) : remaining' = Append(remaining, c)
    /\ UNCHANGED <<pc, nameVars, dateVars, emailVars, menuVars, requested,
                   length, req, chars, password>>

\* x[a], x[b] = x[b], x[a] with 0-based a and b
Swap(x, a, b) == [x EXCEPT ![a + 1] = x[b + 1], ![b + 1] = x[a + 1]]

\* random.shuffle(x) from index k down:
\* for i in reversed(range(1, len(x))): j = randbelow(i + 1); swap x[i], x[j]
RECURSIVE Shuffled(_, _, _)
Shuffled(x, k, run) ==
    IF k < 1 THEN x
    ELSE Shuffled(Swap(x, k, ShuffleDraw(run, k)), k - 1, run)

\* chars = req + remaining; secrets.SystemRandom().shuffle(chars)
ShuffleChars ==
    /\ pc = "draw_remaining"
    /\ Len(remaining) >= length - Len(req)
    /\ \E run \in ShuffleRuns :
          chars' = Shuffled(req \o remaining, Len(req \o remaining) - 1, run)
    /\ pc' = "join_password"
    /\ UNCHANGED <<nameVars, dateVars, emailVars, menuVars, requested, length,
                   req, remaining, password>>

\* return "".join(chars)
ReturnPassword ==
    /\ pc = "join_password"
    /\ password' = chars
    /\ pc' = "password_done"
    /\ UNCHANGED <<nameVars, dateVars, emailVars, menuVars, requested, length,
                   req, remaining, chars>>

InitPwd ==
    /\ NameIdle /\ DateIdle /\ EmailIdle /\ MenuIdle
    /\ pc = "generate_password"
    /\ requested \in 1..MaxRequested
    /\ length = requested
    /\ req = None /\ remaining = None /\ chars = None
    /\ password = None

NextPwd ==
    \/ ClampLength
    \/ DrawRequired
    \/ DrawRemaining
    \/ ShuffleChars
    \/ ReturnPassword

SpecPwd == InitPwd /\ [][NextPwd]_vars

Max(a, b) == IF a >= b THEN a ELSE b

\* C2: the password has exactly max(requested, 10) characters and holds a
\* lowercase letter, an uppercase letter, a digit and a safe-punctuation
\* character, for every requested length >= 1 and every outcome of the draws
\* and of the shuffle.
C2_PasswordPolicy ==
    pc = "password_done" =>
        /\ Len(password) = Max(requested, 10)
        /\ \E k \in 1..Len(password) : password[k] \in Range(ascii_lowercase)
        /\ \E k \in 1..Len(password) : password[k] \in Range(ascii_uppercase)
        /\ \E k \in 1..Len(password) : password[k] \in Range(digits)
        /\ \E k \in 1..Len(password) : password[k] \in Range(SAFE_PUNCT)

\* A length below 10 was asked for, and the shuffle moved the required
\* characters away from the front of the password.
C2_Witness ==
    /\ pc = "password_done"
    /\ requested < 10
    /\ Len(password) = 10
    /\ password # req \o remaining
    /\ password[1] \notin Range(ascii_lowercase)

(***************************************************************************)
(* generate_valid_date.                                                    *)
(***************************************************************************)
DOB_YEAR_MIN == 1970
DOB_YEAR_MAX == 2004

\* calendar.month_abbr[1..12]
month_abbr ==
    << <<"J", "a", "n">>, <<"F", "e", "b">>, <<"M", "a", "r">>,
       <<"A", "p", "r">>, <<"M", "a", "y">>, <<"J", "u", "n">>,
       <<"J", "u", "l">>, <<"A", "u", "g">>, <<"S", "e", "p">>,
       <<"O", "c", "t">>, <<"N", "o", "v">>, <<"D", "e", "c">> >>

convert_month_number(month_number) == month_abbr[month_number]

\* datetime's leap-year rule and month lengths
IsLeap(y) == y % 4 = 0 /\ (y % 100 # 0 \/ y % 400 = 0)

DaysInMonth(y, m) ==
    IF m = 2 /\ IsLeap(y) THEN 29
    ELSE <<31, 28, 31, 30, 31, 30, 31, 31, 30, 31, 30, 31>>[m]

\* DateConstructs without the check of the day against the month's length.
DateConstructsAnyDay(y, m, d) ==
    /\ 1 <= y /\ y <= 9999
    /\ 1 <= m /\ m <= 12
    /\ 1 <= d /\ d <= 31

\* date(year, month, day) returns a date; otherwise it raises ValueError:
\* the year is outside MINYEAR..MAXYEAR = 1..9999, or the day outside the month
DateConstructs(y, m, d) ==
    /\ 1 <= y /\ y <= 9999
    /\ 1 <= m /\ m <= 12
    /\ 1 <= d /\ d <= DaysInMonth(y, m)

\* f"{n:02d}" for n >= 0
Pad2(n) == IF n < 10 THEN <<"0">> \o Str(n) ELSE Str(n)

\* f"{d.day:02d}/{convert_month_number(d.month)}/{d.year}"
FormatDate(y, m, d) ==
    Pad2(d) \o <<"/">> \o convert_month_number(m) \o <<"/">> \o Str(y)

\* The first years of the ranges handed to generate_valid_date: around the
\* ends of datetime's years, at a century that is no leap year, at one that
\* is, and at the configured ends.
YearStarts == {-1, 0, 1900, 1970, 2000, 2003, 9998, 10000}

YearRanges ==
    {<<a, a + k>> : a \in YearStarts, k \in 0..MaxYearSpan}
        \cup {<<DOB_YEAR_MIN, DOB_YEAR_MAX>>}

\* year = secrets.choice(range(min_year, max_year + 1))
\* month = secrets.choice(range(1, 13))
DrawYearMonth ==
    /\ pc = "generate_valid_date"
    /\ year' \in min_year..max_year
    /\ month' \in 1..12
    /\ pc' = "draw_day"
    /\ UNCHANGED <<nameVars, pwdVars, emailVars, menuVars, min_year, max_year,
                   day, date_str>>

\* day = secrets.choice(range(1, 32)); date(...) raises ValueError: continue
RejectDay ==
    /\ pc = "draw_day"
    /\ \E d \in 1..31 :
          /\ ~DateConstructs(year, month, d)
          /\ day' = d
    /\ UNCHANGED <<pc, nameVars, pwdVars, emailVars, menuVars, min_year,
                   max_year, year, month,
                   date_str>>

\* day = secrets.choice(range(1, 32)); d = date(...); return the formatted d
AcceptDay ==
    /\ pc = "draw_day"
    /\ \E d \in 1..31 :
          /\ DateConstructs(year, month, d)
          /\ day' = d
          /\ date_str' = FormatDate(year, month, d)
    /\ pc' = "date_done"
    /\ UNCHANGED <<nameVars, pwdVars, emailVars, menuVars, min_year, max_year,
                   year, month>>

InitDate ==
    /\ NameIdle /\ PwdIdle /\ EmailIdle /\ MenuIdle
    /\ pc = "generate_valid_date"
    /\ \E range \in YearRanges : min_year = range[1] /\ max_year = range[2]
    /\ year = 0 /\ month = 0 /\ day = 0
    /\ date_str = None

NextDate ==
    \/ DrawYearMonth
    \/ RejectDay
    \/ AcceptDay

SpecDate == InitDate /\ [][NextDate]_vars

\* int(str) for a str of decimal digits
RECURSIVE ParseNat(_)
ParseNat(str) ==
    IF str = << >> THEN 0
    ELSE 10 * ParseNat(SubSeq(str, 1, Len(str) - 1))
            + (IndexOf(digits, str[Len(str)]) - 1)

IsDigits(str) == str # << >> /\ \A k \in 1..Len(str) : str[k] \in Range(digits)

\* (d, m, y) is a day of the Gregorian calendar
IsCalendarDate(d, m, y) ==
    /\ m \in 1..12
    /\ d \in 1..31
    /\ m \in {4, 6, 9, 11} => d <= 30
    /\ m = 2 => d <= 29
    /\ (m = 2 /\ d = 29) => (y % 400 = 0 \/ (y % 4 = 0 /\ y % 100 # 0))

C9_LoopHasValidDays ==
    pc = "draw_day" =>
        Cardinality({d \in 1..31 : DateConstructs(year, month, d)}) >= 28

(***************************************************************************)
(* is_valid_email.                                                         *)
(***************************************************************************)
\* The characters str.strip() removes and the class \s matches.
Whitespace == {" ", "\t", "\n", "\r"}

\* str.strip(): leading, then trailing whitespace removed
RECURSIVE LStrip(_)
LStrip(str) ==
    IF str # << >> /\ str[1] \in Whitespace THEN LStrip(Tail(str)) ELSE str

RECURSIVE RStrip(_)
RStrip(str) ==
    IF str # << >> /\ str[Len(str)] \in Whitespace
        THEN RStrip(SubSeq(str, 1, Len(str) - 1))
    ELSE str

\* Strip that removes nothing.
StripNothing(str) == str

Strip(str) == RStrip(LStrip(str))

\* EMAIL_REGEX = ^[^@\s]+@[^@\s]+\.[^@\s]+$ as an automaton.  Its states:
\* 0 at the start, 1 inside the first [^@\s]+, 2 after the "@", 3 inside the
\* second [^@\s]+, 4 after the "\.", 5 inside the third [^@\s]+.
InClass(c) == c # "@" /\ c \notin Whitespace

RegexStep(q, c) ==
    CASE q = 0 -> IF InClass(c) THEN {1} ELSE {}
      [] q = 1 -> (IF InClass(c) THEN {1} ELSE {}) \cup
                  (IF c = "@" THEN {2} ELSE {})
      [] q = 2 -> IF InClass(c) THEN {3} ELSE {}
      [] q = 3 -> (IF InClass(c) THEN {3} ELSE {}) \cup
                  (IF c = "." THEN {4} ELSE {})
      [] q = 4 -> IF InClass(c) THEN {5} ELSE {}
      [] q = 5 -> IF InClass(c) THEN {5} ELSE {}

\* The states the automaton can be in after reading str from the states qs.
RECURSIVE RegexRun(_, _)
RegexRun(qs, str) ==
    IF str = << >> THEN qs
    ELSE RegexRun(UNION {RegexStep(q, str[1]) : q \in qs}, Tail(str))

\* EMAIL_REGEX.match(str): "$" matches at the end of str and also just before
\* a newline that ends str.
RegexMatch(str) ==
    \/ 5 \in RegexRun({0}, str)
    \/ /\ str # << >>
       /\ str[Len(str)] = "\n"
       /\ 5 \in RegexRun({0}, SubSeq(str, 1, Len(str) - 1))

\* bool(EMAIL_REGEX.match(email.strip()))
is_valid_email(email_arg) == RegexMatch(Strip(email_arg))

\* The characters of the strings handed to is_valid_email.
EmailChars == {"a", "@", ".", " ", "\n"}

\* "a@b.c", " a@b.co ", "a b@c.com" and "noatsign.com"
EmailPlain == <<"a", "@", "b", ".", "c">>
EmailPadded == <<" ", "a", "@", "b", ".", "c", "o", " ">>
EmailSpaced == <<"a", " ", "b", "@", "c", ".", "c", "o", "m">>
EmailNoAt == <<"n", "o", "a", "t", "s", "i", "g", "n", ".", "c", "o", "m">>

EmailInputs ==
    StringsUpTo(EmailChars, MaxEmailLen)
        \cup {EmailPlain, EmailPadded, EmailSpaced, EmailNoAt}

IsValidEmail ==
    /\ pc = "is_valid_email"
    /\ valid' = is_valid_email(raw)
    /\ pc' = "email_done"
    /\ UNCHANGED <<nameVars, pwdVars, dateVars, menuVars, raw>>

InitEmail ==
    /\ NameIdle /\ PwdIdle /\ DateIdle /\ MenuIdle
    /\ pc = "is_valid_email"
    /\ raw \in EmailInputs
    /\ valid = None

NextEmail == IsValidEmail

SpecEmail == InitEmail /\ [][NextEmail]_vars

\* str[a..b] is str without its surrounding whitespace.
IsTrimOf(str, a, b) ==
    /\ \A k \in 1..(a - 1) : str[k] \in Whitespace
    /\ \A k \in (b + 1)..Len(str) : str[k] \in Whitespace
    /\ a <= b => (str[a] \notin Whitespace /\ str[b] \notin Whitespace)

\* str[a..b] has the form L@D.T with L, D and T non-empty and free of
\* whitespace and of "@".
HasEmailForm(str, a, b) ==
    \E at \in (a + 1)..(b - 3) : \E dot \in (at + 2)..(b - 1) :
        /\ str[at] = "@"
        /\ str[dot] = "."
        /\ \A k \in a..b :
              k # at => (str[k] # "@" /\ str[k] \notin Whitespace)

\* C4: is_valid_email(raw) is true exactly when raw without its surrounding
\* whitespace has the form L@D.T; "a@b.c" and " a@b.co " are accepted,
\* "a b@c.com" and "noatsign.com" are rejected.
C4_EmailAcceptedIffForm ==
    pc = "email_done" =>
        /\ valid = (\E a \in 1..(Len(raw) + 1) : \E b \in 0..Len(raw) :
                       /\ a <= b + 1
                       /\ IsTrimOf(raw, a, b)
                       /\ HasEmailForm(raw, a, b))
        /\ raw \in {EmailPlain, EmailPadded} => valid = TRUE
        /\ raw \in {EmailSpaced, EmailNoAt} => valid = FALSE

\* An address with surrounding whitespace and a dot inside its domain part
\* was accepted.
C4_Witness ==
    /\ pc = "email_done"
    /\ valid = TRUE
    /\ raw = <<" ", "a", "@", ".", ".", "a">>

(***************************************************************************)
(* sanitize_display_name and generate_display_name.                        *)
(***************************************************************************)
\* allowed = string.ascii_lowercase + string.digits + "_"
allowed == ascii_lowercase \o digits \o <<"_">>

\* if not base or not base[0].isalpha(): base = "a" + base
PrependLetter(str) ==
    IF str = << >> \/ ~IsAlpha(str[1]) THEN <<"a">> \o str ELSE str

\* [ch if ch in allowed else "_" for ch in base], joined
Filtered(str) ==
    [k \in 1..Len(str) |-> IF str[k] \in Range(allowed) THEN str[k] ELSE "_"]

\* s[:n]
Truncate(str, n) == SubSeq(str, 1, IF Len(str) < n THEN Len(str) ELSE n)

\* sanitize_display_name up to s = s[:16]
SanitizeCut(str) == Truncate(Filtered(PrependLetter(Lower(str))), 16)

\* The outcomes of secrets.randbelow(9000) the model explores.
SuffixDraws == (0..MaxSuffixDraw) \cup {8999}

\* Characters of the base strings handed directly to sanitize_display_name:
\* letters of both cases, a digit, the underscore, symbols, a space and
\* letters outside ASCII.
BaseChars == {"a", "Z", "7", "_", "-", " ", "U+00E9", "U+00C9"}

\* base = first + last + str(secrets.randbelow(9000) + 1000)
GenerateDisplayName ==
    /\ pc = "generate_display_name"
    /\ \E r \in SuffixDraws :
          base' = first \o last \o Str(r + 1000)
    /\ pc' = "sanitize_display_name"
    /\ UNCHANGED <<first, last, s, display_name, pwdVars, dateVars, emailVars,
                   menuVars>>

\* lower-casing, the leading "a", the filter and the cut to 16 characters
SanitizeDisplayName ==
    /\ pc = "sanitize_display_name"
    /\ s' = SanitizeCut(base)
    /\ pc' = "pad_display_name"
    /\ UNCHANGED <<first, last, base, display_name, pwdVars, dateVars,
                   emailVars, menuVars>>

\* while len(s) < 3: s += str(secrets.randbelow(10))
PadDisplayName ==
    /\ pc = "pad_display_name"
    /\ Len(s) < 3
    /\ \E d \in 0..9 : s' = s \o Str(d)
    /\ UNCHANGED <<pc, first, last, base, display_name, pwdVars, dateVars,
                   emailVars, menuVars>>

\* return s
ReturnDisplayName ==
    /\ pc = "pad_display_name"
    /\ Len(s) >= 3
    /\ display_name' = s
    /\ pc' = "display_name_done"
    /\ UNCHANGED <<first, last, base, s, pwdVars, dateVars, emailVars,
                   menuVars>>

InitName ==
    /\ PwdIdle /\ DateIdle /\ EmailIdle /\ MenuIdle
    /\ s = None /\ display_name = None
    /\ \/ /\ pc = "sanitize_display_name"
          /\ first = None /\ last = None
          /\ base \in StringsUpTo(BaseChars, MaxBaseLen)
       \/ /\ pc = "generate_display_name"
          /\ first \in Range(FIRST_NAMES)
          /\ last \in Range(LAST_NAMES)
          /\ base = None

NextName ==
    \/ GenerateDisplayName
    \/ SanitizeDisplayName
    \/ PadDisplayName
    \/ ReturnDisplayName

SpecName == InitName /\ [][NextName]_vars

\* ^[a-z][a-z0-9_]{2,15}$
MatchesDisplayPolicy(str) ==
    /\ Len(str) >= 3 /\ Len(str) <= 16
    /\ str[1] \in Range(ascii_lowercase)
    /\ \A k \in 1..Len(str) :
          str[k] \in Range(ascii_lowercase) \cup Range(digits) \cup {"_"}

\* C1: every display name the synthesizer returns, for any input string,
\* matches ^[a-z][a-z0-9_]{2,15}$.
C1_DisplayNameMatchesPolicy ==
    pc = "display_name_done" => MatchesDisplayPolicy(display_name)

\* C10: for every (first, last) drawn from the name lists, the display name
\* returned by generate_display_name still holds a digit of the random
\* suffix (the names hold no digit, so any digit is a suffix digit).
C10_DisplayNameKeepsSuffixDigit ==
    (pc = "display_name_done" /\ first # None) =>
        \E k \in 1..Len(display_name) : display_name[k] \in Range(digits)

(***************************************************************************)
(* generate_account: the generators as functions of the random draws.  In  *)
(* menu_loop every draw of one generation is the lowest outcome of its     *)
(* secrets call ("low") or the highest one ("high").                       *)
(***************************************************************************)
PASSWORD_LENGTH == 12

Draws == {"low", "high"}

\* secrets.choice(seq)
Pick(draw, seq) == IF draw = "low" THEN seq[1] ELSE seq[Len(seq)]

\* generate_names()
generate_names(draw) == <<Pick(draw, FIRST_NAMES), Pick(draw, LAST_NAMES)>>

\* while len(s) < 3: s += str(secrets.randbelow(10))
RECURSIVE Padded(_, _)
Padded(draw, str) ==
    IF Len(str) < 3
        THEN Padded(draw, str \o Str(IF draw = "low" THEN 0 ELSE 9))
    ELSE str

sanitize_display_name(draw, str) == Padded(draw, SanitizeCut(str))

generate_display_name(draw, fst, lst) ==
    sanitize_display_name(
        draw, fst \o lst \o Str((IF draw = "low" THEN 0 ELSE 8999) + 1000))

\* generate_valid_date(): the loop ends at the first day date() accepts
generate_valid_date(draw, lo, hi) ==
    LET y == IF draw = "low" THEN lo ELSE hi
        m == IF draw = "low" THEN 1 ELSE 12
        d == IF draw = "low" THEN 1 ELSE 31
    IN  IF DateConstructs(y, m, d) THEN FormatDate(y, m, d) ELSE None

generate_password(draw, len) ==
    LET n == Clamped(len)
        required == <<Pick(draw, ascii_lowercase), Pick(draw, ascii_uppercase),
                      Pick(draw, digits), Pick(draw, SAFE_PUNCT)>>
        rest == [k \in 1..(n - Len(required)) |-> Pick(draw, PASSWORD_ALPHABET)]
        run == IF draw = "low" THEN "first" ELSE "self"
    IN  Shuffled(required \o rest, Len(required \o rest) - 1, run)

\* f"{n:04d}" for n >= 0
Pad4(n) ==
    IF n < 10 THEN <<"0", "0", "0">> \o Str(n)
    ELSE IF n < 100 THEN <<"0", "0">> \o Str(n)
    ELSE IF n < 1000 THEN <<"0">> \o Str(n)
    ELSE Str(n)

\* datetime.isoformat(timespec="seconds")
isoformat(t) ==
    Pad4(t.year) \o <<"-">> \o Pad2(t.month) \o <<"-">> \o Pad2(t.day)
        \o <<"T">> \o Pad2(t.hour) \o <<":">> \o Pad2(t.minute)
        \o <<":">> \o Pad2(t.second)

\* The reading of datetime.now() at the n-th generation of a run, n < 60:
\* one second passes between two generations.
Clock(n) ==
    [year |-> 2026, month |-> 1, day |-> 2,
     hour |-> 3, minute |-> 4, second |-> n]

\* generate_account(email, country)
generate_account(draw, now, email_arg, country_arg) ==
    LET names == generate_names(draw)
    IN  [email        |-> Strip(email_arg),
         first_name   |-> names[1],
         last_name    |-> names[2],
         display_name |-> generate_display_name(draw, names[1], names[2]),
         date_str     |-> generate_valid_date(draw, DOB_YEAR_MIN, DOB_YEAR_MAX),
         password     |-> generate_password(draw, PASSWORD_LENGTH),
         country      |-> country_arg,
         created_at   |-> isoformat(now)]

(***************************************************************************)
(* AccountDetails.to_text_block and append_to_file.                        *)
(***************************************************************************)
\* sep.join(lines)
RECURSIVE Join(_, _)
Join(lines, sep) ==
    IF lines = << >> THEN << >>
    ELSE IF Len(lines) = 1 THEN lines[1]
    ELSE lines[1] \o sep \o Join(Tail(lines), sep)

\* str * n for a one-character str
Repeat(c, n) == [k \in 1..n |-> c]

to_text_block(self) ==
    Join(<< <<"E", "m", "a", "i", "l", ":", " ">> \o self.email,
            <<"F", "i", "r", "s", "t", " ", "n", "a", "m", "e", ":", " ">>
                \o self.first_name,
            <<"L", "a", "s", "t", " ", "n", "a", "m", "e", ":", " ">>
                \o self.last_name,
            <<"C", "r", "e", "a", "t", "e", " ",
              "p", "a", "s", "s", "w", "o", "r", "d", ":", " ">>
                \o self.password,
            <<"A", "d", "d", " ", "a", " ", "d", "i", "s", "p", "l", "a", "y",
              " ", "n", "a", "m", "e", ":", " ">>
                \o self.display_name,
            <<"D", "a", "t", "e", ":", " ">> \o self.date_str,
            <<"C", "o", "u", "n", "t", "r", "y", ":", " ">> \o self.country,
            <<"C", "r", "e", "a", "t", "e", "d", ":", " ">> \o self.created_at,
            Repeat("-", 31) >>,
         <<"\n">>)

\* Appended for a file opened with "w": the earlier content is lost.
AppendedAfterTruncation(content, text) == text \o <<"\n">>

\* open("a") and f.write(block + "\n"): the content of the file afterwards
Appended(content, text) ==
    (IF content = None THEN << >> ELSE content) \o text \o <<"\n">>

(***************************************************************************)
(* choose_country, guide_copy_field and menu_loop.                         *)
(***************************************************************************)
TEMP_MAIL_URL == "https://temp-mail.org/"
EPIC_SIGNUP_URL == "https://www.epicgames.com/id/register"

ENGLISH_COUNTRIES ==
    << <<"U", "n", "i", "t", "e", "d", " ", "S", "t", "a", "t", "e", "s">>,
       <<"U", "n", "i", "t", "e", "d", " ", "K", "i", "n", "g", "d", "o", "m">>,
       <<"C", "a", "n", "a", "d", "a">>,
       <<"A", "u", "s", "t", "r", "a", "l", "i", "a">>,
       <<"I", "r", "e", "l", "a", "n", "d">>,
       <<"N", "e", "w", " ", "Z", "e", "a", "l", "a", "n", "d">> >>

DEFAULT_COUNTRY ==
    <<"U", "n", "i", "t", "e", "d", " ", "S", "t", "a", "t", "e", "s">>

\* Characters str.isdigit() accepts and int() refuses: superscript two.
NonDecimalDigits == {"U+00B2"}

\* str.isdigit()
IsDigit(str) ==
    /\ str # << >>
    /\ \A k \in 1..Len(str) : str[k] \in Range(digits) \cup NonDecimalDigits

\* int(str) raises ValueError
IntRaises(str) == \E k \in 1..Len(str) : str[k] \notin Range(digits)

\* CountryFor that takes the choice for an index counted from 0.
CountryForFromZero(stripped) ==
    IF IsDigit(stripped)
          /\ 0 <= ParseNat(stripped)
          /\ ParseNat(stripped) < Len(ENGLISH_COUNTRIES)
        THEN ENGLISH_COUNTRIES[ParseNat(stripped) + 1]
    ELSE DEFAULT_COUNTRY

\* choose_country() once raw = input(...).strip() is read and int(raw) returns
CountryFor(stripped) ==
    IF IsDigit(stripped)
          /\ 1 <= ParseNat(stripped)
          /\ ParseNat(stripped) <= Len(ENGLISH_COUNTRIES)
        THEN ENGLISH_COUNTRIES[ParseNat(stripped)]
    ELSE DEFAULT_COUNTRY

\* str.upper() on one character and on a str
CharUpper(c) ==
    IF c \in Range(ascii_lowercase)
        THEN ascii_uppercase[IndexOf(ascii_lowercase, c)]
    ELSE IF c \in Range(NonAsciiLower)
        THEN NonAsciiUpper[IndexOf(NonAsciiLower, c)]
    ELSE c

Upper(str) == [k \in 1..Len(str) |-> CharUpper(str[k])]

\* What the user types at the prompts.
TypedChoices == {<<"1">>, <<" ", "1", " ">>, <<"2">>, <<"x">>, << >>}
TypedEmails == {EmailPlain, EmailPadded, EmailSpaced, EmailNoAt}
TypedCountries ==
    {<< >>, <<"1">>, <<" ", "0", "6", " ">>, <<"0">>, <<"7">>, <<"x">>,
     <<"U+00B2">>}
TypedMore == {<<"n">>, <<" ", "N">>, <<"y">>, << >>}

\* The log file when the program starts: no directory, no file, a file that
\* ends in a newline, a file that does not.
LogStarts ==
    { [parent |-> FALSE, content |-> None],
      [parent |-> TRUE,  content |-> None],
      [parent |-> TRUE,  content |-> <<"o", "l", "d", "\n">>],
      [parent |-> TRUE,  content |-> <<"x">>] }

genVars == <<nameVars, pwdVars, dateVars, emailVars>>

\* choice == "1": webbrowser.open(TEMP_MAIL_URL, new=2)
ChooseCreate ==
    /\ pc = "menu"
    /\ Len(generated) < MaxGenerations
    /\ \E typed \in TypedChoices : Strip(typed) = <<"1">>
    /\ opened' = IF env.browser THEN TEMP_MAIL_URL ELSE opened
    /\ pc' = "ask_email"
    /\ UNCHANGED <<genVars, typed_email, email, typed_country, country, acc,
                   block, parent_exists, file, original, generated, clipboard,
                   notice, exc, env>>

\* choice == "2": break
ChooseQuit ==
    /\ pc = "menu"
    /\ \E typed \in TypedChoices : Strip(typed) = <<"2">>
    /\ pc' = "exit_prompt"
    /\ UNCHANGED <<genVars, menuVars>>

\* else: print("Invalid choice. Please try again.")
ChooseInvalid ==
    /\ pc = "menu"
    /\ \E typed \in TypedChoices : Strip(typed) \notin {<<"1">>, <<"2">>}
    /\ notice' = "Invalid choice"
    /\ UNCHANGED <<pc, genVars, typed_email, email, typed_country, country,
                   acc, block, parent_exists, file, original, generated,
                   opened, clipboard, exc, env>>

\* email = input(...).strip(); is_valid_email(email) holds
AcceptEmail ==
    /\ pc = "ask_email"
    /\ \E typed \in TypedEmails :
          /\ is_valid_email(Strip(typed))
          /\ typed_email' = typed
          /\ email' = Strip(typed)
    /\ pc' = "choose_country"
    /\ UNCHANGED <<genVars, typed_country, country, acc, block, parent_exists,
                   file, original, generated, opened, clipboard, notice, exc, env>>

\* email = input(...).strip(); if not is_valid_email(email): continue
RejectEmail ==
    /\ pc = "ask_email"
    /\ \E typed \in TypedEmails :
          /\ ~is_valid_email(Strip(typed))
          /\ typed_email' = typed
          /\ email' = Strip(typed)
    /\ notice' = "Invalid email format"
    /\ pc' = "menu"
    /\ UNCHANGED <<genVars, typed_country, country, acc, block, parent_exists,
                   file, original, generated, opened, clipboard, exc, env>>

\* country = choose_country()
ChooseCountry ==
    /\ pc = "choose_country"
    /\ \E typed \in TypedCountries :
          /\ ~(IsDigit(Strip(typed)) /\ IntRaises(Strip(typed)))
          /\ typed_country' = typed
          /\ country' = CountryFor(Strip(typed))
    /\ pc' = "generate_account"
    /\ UNCHANGED <<genVars, typed_email, email, acc, block, parent_exists,
                   file, original, generated, opened, clipboard, notice, exc, env>>

\* choose_country(): raw.isdigit() holds and int(raw) raises ValueError
ChooseCountryRaises ==
    /\ pc = "choose_country"
    /\ \E typed \in TypedCountries :
          /\ IsDigit(Strip(typed)) /\ IntRaises(Strip(typed))
          /\ typed_country' = typed
    /\ exc' = "ValueError"
    /\ pc' = "crashed"
    /\ UNCHANGED <<genVars, typed_email, email, country, acc, block,
                   parent_exists, file, original, generated, opened,
                   clipboard, notice, env>>

\* acc = generate_account(email, country)
GenerateAccount ==
    /\ pc = "generate_account"
    /\ \E draw \in Draws :
          acc' = generate_account(draw, Clock(Len(generated)), email, country)
    /\ generated' = Append(generated, acc')
    /\ pc' = "to_text_block"
    /\ UNCHANGED <<genVars, typed_email, email, typed_country, country, block,
                   parent_exists, file, original, opened, clipboard, notice,
                   exc, env>>

\* block = acc.to_text_block()
FormatBlock ==
    /\ pc = "to_text_block"
    /\ block' = to_text_block(acc)
    /\ pc' = "append_to_file"
    /\ UNCHANGED <<genVars, typed_email, email, typed_country, country, acc,
                   parent_exists, file, original, generated, opened,
                   clipboard, notice, exc, env>>

\* append_to_file(block): mkdir(parents=True, exist_ok=True), open("a"), write
AppendToFile ==
    /\ pc = "append_to_file"
    /\ parent_exists' = TRUE
    /\ file' = Appended(file, block)
    /\ pc' = "open_signup"
    /\ UNCHANGED <<genVars, typed_email, email, typed_country, country, acc,
                   block, original, generated, opened, clipboard, notice, exc, env>>

\* append_to_file(block): mkdir or open raises OSError, which nothing catches
AppendToFileRaises ==
    /\ pc = "append_to_file"
    /\ exc' = "OSError"
    /\ pc' = "crashed"
    /\ UNCHANGED <<genVars, typed_email, email, typed_country, country, acc,
                   block, parent_exists, file, original, generated, opened,
                   clipboard, notice, env>>

\* webbrowser.open(EPIC_SIGNUP_URL, new=2)
OpenSignup ==
    /\ pc = "open_signup"
    /\ opened' = IF env.browser THEN EPIC_SIGNUP_URL ELSE opened
    /\ pc' = "guide_email"
    /\ UNCHANGED <<genVars, typed_email, email, typed_country, country, acc,
                   block, parent_exists, file, original, generated, clipboard,
                   notice, exc, env>>

\* The five guide_copy_field calls of menu_loop, in order.
GuideSteps ==
    <<"guide_email", "guide_first_name", "guide_last_name", "guide_password",
      "guide_display_name">>

GuidedValue(record, k) ==
    <<record.email, record.first_name, record.last_name, record.password,
      record.display_name>>[k]

\* copy_to_clipboard(text): True when the text reached the clipboard, False
\* when clip or tkinter failed
copy_to_clipboard(text) == env.clipboard

\* GuideCopyField that empties the field of the record once it is copied.
GuideCopyFieldClearing ==
    /\ pc \in Range(GuideSteps)
    /\ LET k == IndexOf(GuideSteps, pc)
           ok == copy_to_clipboard(GuidedValue(acc, k))
       IN  /\ clipboard' = IF ok THEN GuidedValue(acc, k) ELSE clipboard
           /\ notice' = IF ok THEN "Copied" ELSE "Could not copy"
           /\ acc' = IF ok /\ k = 4 THEN [acc EXCEPT !.password = << >>] ELSE acc
           /\ pc' = IF k < Len(GuideSteps) THEN GuideSteps[k + 1]
                    ELSE "ask_more"
    /\ UNCHANGED <<genVars, typed_email, email, typed_country, country,
                   block, parent_exists, file, original, generated, opened,
                   exc, env>>

\* guide_copy_field(label, value): ok = copy_to_clipboard(value)
GuideCopyField ==
    /\ pc \in Range(GuideSteps)
    /\ LET k == IndexOf(GuideSteps, pc)
           ok == copy_to_clipboard(GuidedValue(acc, k))
       IN  /\ clipboard' = IF ok THEN GuidedValue(acc, k) ELSE clipboard
           /\ notice' = IF ok THEN "Copied" ELSE "Could not copy"
           /\ pc' = IF k < Len(GuideSteps) THEN GuideSteps[k + 1]
                    ELSE "ask_more"
    /\ UNCHANGED <<genVars, typed_email, email, typed_country, country, acc,
                   block, parent_exists, file, original, generated, opened,
                   exc, env>>

\* more = input(...).strip().upper(); if more == "N": break
\* What was typed at the prompts of this round is forgotten.
AskMore ==
    /\ pc = "ask_more"
    /\ \E typed \in TypedMore :
          pc' = IF Upper(Strip(typed)) = <<"N">> THEN "exit_prompt" ELSE "menu"
    /\ typed_email' = None
    /\ typed_country' = None
    /\ UNCHANGED <<genVars, email, country, acc, block, parent_exists, file,
                   original, generated, opened, clipboard, notice, exc, env>>

\* input("Press Enter to exit...")
PressEnterToExit ==
    /\ pc = "exit_prompt"
    /\ pc' = "exited"
    /\ UNCHANGED <<genVars, menuVars>>

InitMenu ==
    /\ NameIdle /\ PwdIdle /\ DateIdle /\ EmailIdle
    /\ pc = "menu"
    /\ typed_email = None /\ email = None /\ typed_country = None
    /\ country = None /\ acc = None /\ block = None
    /\ \E start \in LogStarts :
          /\ parent_exists = start.parent
          /\ file = start.content
          /\ original = start.content
    /\ generated = << >> /\ opened = None /\ clipboard = None
    /\ notice = None /\ exc = None
    /\ env \in [clipboard : BOOLEAN, browser : BOOLEAN]

NextMenu ==
    \/ ChooseCreate
    \/ ChooseQuit
    \/ ChooseInvalid
    \/ AcceptEmail
    \/ RejectEmail
    \/ ChooseCountry
    \/ ChooseCountryRaises
    \/ GenerateAccount
    \/ FormatBlock
    \/ AppendToFile
    \/ AppendToFileRaises
    \/ OpenSignup
    \/ GuideCopyField
    \/ AskMore
    \/ PressEnterToExit

SpecMenu == InitMenu /\ [][NextMenu]_vars

\* C5: once the email is accepted, no failure of the browser, of the file
\* append or of the clipboard aborts the flow: the program never ends on an
\* I/O error.
C5_IOFailureNeverAborts ==
    pc = "crashed" => exc # "OSError"

\* The positions of menu_loop between generate_account and the end of the
\* round, and those at which the last record is not yet in the log.
AfterGeneration ==
    {"to_text_block", "append_to_file", "open_signup", "ask_more"}
        \cup Range(GuideSteps)

NotYetLogged ==
    \/ pc \in {"to_text_block", "append_to_file"}
    \/ pc = "crashed" /\ exc = "OSError"

FieldsNonEmpty(record) ==
    \A f \in DOMAIN record : record[f] # << >> /\ record[f] # None

\* The country the typed choice asks for: the one at its number when the
\* choice is a number from 1 to 6, the default for anything else.
RequestedCountry(typed, result) ==
    \E a \in 1..(Len(typed) + 1) : \E b \in 0..Len(typed) :
        /\ a <= b + 1
        /\ IsTrimOf(typed, a, b)
        /\ LET choice == SubSeq(typed, a, b)
               numeric == IsDigits(choice)
           IN  /\ \A n \in 1..6 :
                     (numeric /\ ParseNat(choice) = n)
                         => result = ENGLISH_COUNTRIES[n]
               /\ (~numeric \/ ParseNat(choice) \notin 1..6)
                     => result = DEFAULT_COUNTRY

C6_RecordInvariant ==
    /\ \A k \in 1..Len(generated) :
          /\ FieldsNonEmpty(generated[k])
          /\ HasEmailForm(generated[k].email, 1, Len(generated[k].email))
          /\ generated[k].country \in Range(ENGLISH_COUNTRIES)
    /\ pc \in AfterGeneration =>
          /\ acc = generated[Len(generated)]
          /\ \E a \in 1..(Len(typed_email) + 1) : \E b \in 0..Len(typed_email) :
                /\ a <= b + 1
                /\ IsTrimOf(typed_email, a, b)
                /\ acc.email = SubSeq(typed_email, a, b)
          /\ is_valid_email(acc.email)
          /\ RequestedCountry(typed_country, acc.country)

C6_RejectedEmailStep ==
    (pc = "ask_email" /\ ~is_valid_email(typed_email')) =>
        /\ pc' = "menu"
        /\ generated' = generated
        /\ acc' = acc
        /\ file' = file

\* C6: every record generated has the trimmed, valid email that was typed,
\* the country that was asked for (one of the six; the default for an empty,
\* non-numeric or out-of-range choice) and no empty field; a rejected email
\* leads back to the menu with no record and no write to the log.
C6_RequestBoundary ==
    []C6_RecordInvariant /\ [][C6_RejectedEmailStep]_vars

\* A padded email and the choice " 06 " gave a record for New Zealand, and
\* the choice "7" a record for the default country.
C6_Witness ==
    /\ pc = "ask_more"
    /\ Len(generated) = 2
    /\ typed_email = EmailPadded
    /\ typed_country = <<"7">>
    /\ generated[1].country = ENGLISH_COUNTRIES[6]
    /\ acc.country = DEFAULT_COUNTRY

\* The lines of text from position from on, cut at the positions in cuts.
RECURSIVE LinesFrom(_, _, _)
LinesFrom(text, from, cuts) ==
    IF cuts = {} THEN <<SubSeq(text, from, Len(text))>>
    ELSE LET k == CHOOSE n \in cuts : \A m \in cuts : n <= m
         IN  <<SubSeq(text, from, k - 1)>>
                 \o LinesFrom(text, k + 1, cuts \ {k})

\* text.split("\n")
SplitLines(text) ==
    LinesFrom(text, 1, {n \in 1..Len(text) : text[n] = "\n"})

\* The keys of the lines of a record block, in order.
LogKeys ==
    << <<"E", "m", "a", "i", "l">>,
       <<"F", "i", "r", "s", "t", " ", "n", "a", "m", "e">>,
       <<"L", "a", "s", "t", " ", "n", "a", "m", "e">>,
       <<"C", "r", "e", "a", "t", "e", " ", "p", "a", "s", "s", "w", "o", "r", "d">>,
       <<"A", "d", "d", " ", "a", " ", "d", "i", "s", "p", "l", "a", "y", " ",
         "n", "a", "m", "e">>,
       <<"D", "a", "t", "e">>,
       <<"C", "o", "u", "n", "t", "r", "y">>,
       <<"C", "r", "e", "a", "t", "e", "d">> >>

LogValues(record) ==
    <<record.email, record.first_name, record.last_name, record.password,
      record.display_name, record.date_str, record.country, record.created_at>>

\* The nine lines of the block of a record.
BlockLines(record) ==
    [k \in 1..9 |->
        IF k <= 8 THEN LogKeys[k] \o <<":", " ">> \o LogValues(record)[k]
        ELSE <<"-", "-", "-", "-", "-", "-", "-", "-", "-", "-",
               "-", "-", "-", "-", "-", "-", "-", "-", "-", "-",
               "-", "-", "-", "-", "-", "-", "-", "-", "-", "-", "-">>]

RECURSIVE AllBlockLines(_)
AllBlockLines(records) ==
    IF records = << >> THEN << >>
    ELSE BlockLines(Head(records)) \o AllBlockLines(Tail(records))

\* C7: the log is its original content followed by one block per logged
\* record, in generation order; a block is the eight "Key: value" lines, a
\* line of 31 "-" and a newline.  Nothing earlier is cut or rewritten, and
\* the directory of the log exists once a record is logged.
C7_LogIsAppendOnly ==
    LET logged == IF NotYetLogged
                      THEN SubSeq(generated, 1, Len(generated) - 1)
                  ELSE generated
        start == IF original = None THEN << >> ELSE original
        content == IF file = None THEN << >> ELSE file
    IN  /\ Len(content) >= Len(start)
        /\ SubSeq(content, 1, Len(start)) = start
        /\ SplitLines(SubSeq(content, Len(start) + 1, Len(content)))
              = AllBlockLines(logged) \o << << >> >>
        /\ logged = << >> => file = original
        /\ logged # << >> => (parent_exists /\ file # None)

\* Two different records were logged behind earlier content that did not
\* end in a newline.
C7_Witness ==
    /\ pc = "menu"
    /\ Len(generated) = 2
    /\ generated[1] # generated[2]
    /\ original = <<"x">>
    /\ Len(file) > 300

\* C8: no step other than the construction of a record changes acc, and the
\* block formatted when the record was built equals the record formatted
\* again at any later step of the round.
C8_RecordIsNeverMutated ==
    /\ [](pc \in ({"append_to_file", "open_signup", "ask_more"}
                      \cup Range(GuideSteps))
             => block = to_text_block(acc))
    /\ [][pc # "generate_account" => acc' = acc]_vars

\* The password of the second record was copied to the clipboard.
C8_Witness ==
    /\ pc = "guide_display_name"
    /\ Len(generated) = 2
    /\ clipboard = acc.password
    /\ notice = "Copied"

====
